---- MODULE Spec2Model ----
\* Model of tensorlayer/layers/dense/dorefa_dense.py: the DorefaDenseLayer
\* class, its constructor and its compile method.
\*
\* Tensors are symbolic: a tensor is the expression that computes it (the
\* operation, its operands, its bit-width) together with its static shape and
\* dtype.  The helpers imported from other modules (cabs, quantize_active,
\* quantize_weight, tf.matmul, tf.nn.bias_add, Layer._apply_activation,
\* Layer._get_tf_variable, auto_parse_inputs) have no code in this file; each
\* is an expression node, and the two that may fail or touch framework state
\* (_get_tf_variable, auto_parse_inputs) are modelled from their description.
EXTENDS Integers, Sequences, FiniteSets, TLC

VARIABLES layer, temp_data, params, calls, result, resolved

vars == <<layer, temp_data, params, calls, result, resolved>>

\* ------------------------------------------------------------------ bounds
MaxDim == 2       \* largest size of one input dimension

\* ------------------------------------------------- defaults of __init__
DefaultBitW == 1
DefaultBitA == 3
DefaultUnits == 100

\* ------------------------------------------------------------- value sets
None == "None"

Ranks == {1, 2, 3}
Shapes == UNION {[1..r -> 1..MaxDim] : r \in Ranks}
DTypes == {"float32"}
Bits == {DefaultBitW, DefaultBitA}
Units == {1, DefaultUnits}
Acts == {None, "relu"}
WInits == {"truncated_normal_initializer"}
BInits == {None, "constant_initializer"}
WInitArgs == {"{}"}
BInitArgs == {"{trainable: False}"}
Names == {"dorefa_dense"}

\* The shape of a variable requested without a shape argument: the framework
\* takes it from the initializer.
UnknownShape == <<-1>>

\* ---------------------------------------------------------------- tensors
Tensor(op, shape, dtype, k, fn, init, init_args, args) ==
    [op |-> op, shape |-> shape, dtype |-> dtype, k |-> k, fn |-> fn,
     init |-> init, init_args |-> init_args, args |-> args]

NoTensor == Tensor("none", <<>>, "", 0, "", "", "", <<>>)

Placeholder(shape, dtype) == Tensor("input", shape, dtype, 0, "", "", "", <<>>)

Inputs == {Placeholder(s, d) : s \in Shapes, d \in DTypes}

cabs(x) == Tensor("cabs", x.shape, x.dtype, 0, "", "", "", <<x>>)

quantize_active(x, bitA) ==
    Tensor("quantize_active", x.shape, x.dtype, bitA, "", "", "", <<x>>)

quantize_weight(x, bitW) ==
    Tensor("quantize_weight", x.shape, x.dtype, bitW, "", "", "", <<x>>)

matmul(a, b) ==
    Tensor("matmul", <<a.shape[1], b.shape[2]>>, a.dtype, 0, "", "", "", <<a, b>>)

bias_add(value, bias) ==
    Tensor("bias_add", value.shape, value.dtype, 0, "", "", "", <<value, bias>>)

_apply_activation(act, x) ==
    IF act = None THEN x
    ELSE Tensor("act", x.shape, x.dtype, 0, act, "", "", <<x>>)

\* ------------------------------------------------ the parameter mechanism
Request(name, shape, initializer, dtype, init_args) ==
    [name |-> name, shape |-> shape, initializer |-> initializer,
     dtype |-> dtype, init_args |-> init_args]

Variable(req) ==
    Tensor("var", req.shape, req.dtype, 0, req.name, req.initializer,
           req.init_args, <<>>)

\* An existing variable of that name can be handed back only for a request
\* that agrees with it.
Compatible(ps, req) ==
    \/ ps[req.name] = NoTensor
    \/ /\ ps[req.name].dtype = req.dtype
       /\ ps[req.name].shape = req.shape

\* Layer._get_tf_variable: either raises (ok = FALSE: nothing is created) or
\* returns the variable of that name, creating it when it does not exist.
_get_tf_variable(ps, req, ok) ==
    IF ok /\ Compatible(ps, req)
    THEN LET v == IF ps[req.name] = NoTensor THEN Variable(req) ELSE ps[req.name]
         IN  [raised |-> FALSE, var |-> v, params |-> [ps EXCEPT ![req.name] = v]]
    ELSE [raised |-> TRUE, var |-> NoTensor, params |-> ps]

\* ------------------------------------------------------------ the layer
Configs ==
    [bitW : Bits, bitA : Bits, n_units : Units, act : Acts,
     gemmlowp_at_inference : BOOLEAN, W_init : WInits, b_init : BInits,
     W_init_args : WInitArgs, b_init_args : BInitArgs, name : Names]

NoLayer == [name |-> None]

Init ==
    /\ layer = NoLayer
    /\ temp_data = [inputs |-> NoTensor, outputs |-> NoTensor]
    /\ params = [n \in {"W", "b"} |-> NoTensor]
    /\ calls = <<>>
    /\ result = "none"
    /\ resolved = NoTensor

\* Mutant: the constructor creates the weight variable eagerly.
ConstructEager ==
    /\ layer = NoLayer
    /\ \E c \in Configs :
         /\ layer' = c
         /\ params' = [params EXCEPT !["W"] =
               Variable(Request("W", <<1, c.n_units>>, c.W_init, "float32",
                                c.W_init_args))]
    /\ UNCHANGED <<temp_data, calls, result, resolved>>

\* DorefaDenseLayer.__init__
Construct ==
    /\ layer = NoLayer
    /\ \E c \in Configs : layer' = c
    /\ UNCHANGED <<temp_data, params, calls, result, resolved>>

\* auto_parse_inputs: the decorator resolves prev_layer to a tensor and stores
\* it as the layer's input before the body of compile runs.
auto_parse_inputs(td, x) == [td EXCEPT !.inputs = x]

\* Mutant: the flag is tested before the rank.
GuardsSwapped(l, x) ==
    IF l.gemmlowp_at_inference THEN "not_implemented"
    ELSE IF Len(x.shape) # 2 THEN "rank_error"
    ELSE "pass"

\* Mutant: the flag is accepted and ignored.
GuardsNoGemmlowp(l, x) ==
    IF Len(x.shape) # 2 THEN "rank_error" ELSE "pass"

\* compile, lines 110-114: the two guards, in the order the code evaluates them
Guards(l, x) ==
    IF Len(x.shape) # 2 THEN "rank_error"
    ELSE IF l.gemmlowp_at_inference THEN "not_implemented"
    ELSE "pass"

\* Mutant: n_in read from the first dimension.
InputFeaturesFirst(x) == x.shape[1]

\* line 116: n_in = int(inputs.get_shape()[-1])
InputFeatures(x) == x.shape[Len(x.shape)]

\* Mutant: the clipping transform is left out.
QuantizedInputsNoCabs(l, x) == quantize_active(x, l.bitA)

\* Mutant: the activations are quantized to the weights' bit-width.
QuantizedInputsBitW(l, x) == quantize_active(cabs(x), l.bitW)

\* line 118: the value stored back as the layer's input
QuantizedInputs(l, x) == quantize_active(cabs(x), l.bitA)

\* lines 122-128
WeightRequest(l, n_in, x) ==
    Request("W", <<n_in, l.n_units>>, l.W_init, x.dtype, l.W_init_args)

\* Mutant: the weights are quantized to the activations' bit-width.
QuantizedWeightsBitA(l, w) == quantize_weight(w, l.bitA)

\* line 130: the local name weight_matrix is rebound; the variable is not
QuantizedWeights(l, w) == quantize_weight(w, l.bitW)

\* line 137: if self.b_init
HasBias(l) == l.b_init # None

\* lines 139-145
BiasRequest(l, x) ==
    Request("b", <<l.n_units>>, l.b_init, x.dtype, l.b_init_args)

\* Mutant: the fallback passes the weight initializer's arguments.
BiasRequestNoShapeWArgs(l, x) ==
    Request("b", UnknownShape, l.b_init, x.dtype, l.W_init_args)

\* lines 148-150
BiasRequestNoShape(l, x) ==
    Request("b", UnknownShape, l.b_init, x.dtype, l.b_init_args)

\* Mutant: the bias is quantized like the weights before it is added.
WithQuantizedBias(l, out, b) == bias_add(out, quantize_weight(b, l.bitW))

\* line 152
WithBias(l, out, b) == bias_add(out, b)

\* One entry of the record of what this call asked of the parameter mechanism.
Call(req, ans) == [req |-> req, raised |-> ans.raised]

Outcome(td, ps, cs, res) ==
    [temp_data |-> td, params |-> ps, calls |-> cs, result |-> res]

\* lines 137-155, entered with the product stored in td.outputs.
\* bOk and b2Ok are what the parameter mechanism answers to the shape-qualified
\* and to the shape-less request for 'b'.
BiasAndActivation(l, td, ps, cs, bOk, b2Ok) ==
    IF ~HasBias(l)
    THEN Outcome([td EXCEPT !.outputs = _apply_activation(l.act, td.outputs)],
                 ps, cs, "ok")
    ELSE
      LET req1 == BiasRequest(l, td.inputs)
          try  == _get_tf_variable(ps, req1, bOk)
          req2 == BiasRequestNoShape(l, td.inputs)
          exc  == _get_tf_variable(ps, req2, b2Ok)
          cs2  == IF try.raised
                  THEN cs \o <<Call(req1, try), Call(req2, exc)>>
                  ELSE cs \o <<Call(req1, try)>>
          got  == IF try.raised THEN exc ELSE try
      IN  IF got.raised
          THEN Outcome(td, ps, cs2, "framework_error")
          ELSE Outcome(
                 [td EXCEPT !.outputs =
                    _apply_activation(l.act, WithBias(l, td.outputs, got.var))],
                 got.params, cs2, "ok")

\* lines 116-155: what compile does once both guards have passed.  wOk is
\* what the parameter mechanism answers to the request for 'W'.
Forward(l, td, ps, wOk, bOk, b2Ok) ==
    LET n_in == InputFeatures(td.inputs)
        td1  == [td EXCEPT !.inputs = QuantizedInputs(l, td.inputs)]
        wreq == WeightRequest(l, n_in, td1.inputs)
        got  == _get_tf_variable(ps, wreq, wOk)
    IN  IF got.raised
        THEN Outcome(td1, ps, <<Call(wreq, got)>>, "framework_error")
        ELSE
          LET weight_matrix == QuantizedWeights(l, got.var)
              td2 == [td1 EXCEPT !.outputs = matmul(td1.inputs, weight_matrix)]
          IN  BiasAndActivation(l, td2, got.params, <<Call(wreq, got)>>,
                                bOk, b2Ok)

\* Mutant: the flag is tested after the input has been quantized and stored.
compileLateGuard(l, td, ps, wOk, bOk, b2Ok) ==
    IF Len(td.inputs.shape) # 2 THEN Outcome(td, ps, <<>>, "rank_error")
    ELSE IF l.gemmlowp_at_inference
    THEN Outcome([td EXCEPT !.inputs = QuantizedInputs(l, td.inputs)], ps,
                 <<>>, "not_implemented")
    ELSE Forward(l, td, ps, wOk, bOk, b2Ok)

\* DorefaDenseLayer.compile, lines 108-155.  td.inputs holds the resolved input.
compile(l, td, ps, wOk, bOk, b2Ok) ==
    LET g == Guards(l, td.inputs) IN
    IF g # "pass" THEN Outcome(td, ps, <<>>, g)
    ELSE Forward(l, td, ps, wOk, bOk, b2Ok)

\* What the parameter mechanism answers to the requests for 'W', for 'b' with
\* a shape and for 'b' without one (TRUE: it returns a variable).  A request
\* that an earlier failure keeps compile from making has no answer to vary.
Answers ==
    {a \in [1..3 -> BOOLEAN] : /\ a[2] => a[1]
                               /\ a[3] => (a[1] /\ ~a[2])}

\* One invocation of the layer against an input: input resolution, then the
\* whole of compile.
Compile ==
    /\ layer # NoLayer
    /\ \E x \in Inputs, a \in Answers :
         \E r \in {compile(layer, auto_parse_inputs(temp_data, x), params,
                            a[1], a[2], a[3])} :
             /\ temp_data' = r.temp_data
             /\ params' = r.params
             /\ calls' = r.calls
             /\ result' = r.result
             /\ resolved' = x
    /\ UNCHANGED layer

Next ==
    \/ Construct
    \/ Compile

Spec == Init /\ [][Next]_vars

\* ================================================================ claims
\* result # "none" says that compile has been invoked at least once; then
\* resolved is the input the most recent invocation was given, calls is what
\* that invocation asked of the parameter mechanism, result is how it ended.

Compiled == result # "none"

\* The constructor runs once, on a state without a layer: every step taken from
\* a state that has a layer is one invocation of compile.
CompileStep == layer # NoLayer

ExplicitFailure(res) == res \in {"rank_error", "not_implemented"}

\* The matrix product inside an output expression.
RECURSIVE MatMulOf(_)
MatMulOf(t) ==
    IF t.op = "matmul" \/ Len(t.args) = 0 THEN t ELSE MatMulOf(t.args[1])

\* C1: whatever the configuration (either value of the flag included), compile
\* on an input whose rank is not 2 ends in the rank error and yields no output.
C1_RankError ==
    (Compiled /\ Len(resolved.shape) # 2) => result = "rank_error"

C1_Witness ==
    /\ result = "rank_error"
    /\ layer.gemmlowp_at_inference
    /\ Len(resolved.shape) = 3

\* C2, as claimed: with the flag enabled, compile on an input of any rank ends
\* in the not-implemented error.
C2_AnyRankNotImplemented ==
    (Compiled /\ layer.gemmlowp_at_inference) => result = "not_implemented"

\* C2, amended: with the flag enabled, compile on a rank-2 input ends in the
\* not-implemented error, and on an input of any other rank in the rank error.
C2_NotImplemented ==
    (Compiled /\ layer.gemmlowp_at_inference) =>
        result = IF Len(resolved.shape) = 2 THEN "not_implemented"
                 ELSE "rank_error"

C2_Witness ==
    /\ result = "not_implemented"
    /\ Len(resolved.shape) = 2

\* C3: when compile reaches the creation of 'b': a shape-qualified request that
\* succeeds is the only request for 'b'; one that raises is followed by exactly
\* one shape-less request with the same initializer, dtype and b_init_args,
\* whose success completes compile with the bias added and whose failure is
\* the only failure that leaves compile.
C3_BiasFallback ==
    (Compiled /\ Len(calls) >= 2) =>
      LET first == calls[2] IN
      /\ layer.b_init # None
      /\ first.req = [name |-> "b", shape |-> <<layer.n_units>>,
                      initializer |-> layer.b_init,
                      dtype |-> temp_data.inputs.dtype,
                      init_args |-> layer.b_init_args]
      /\ ~first.raised =>
            /\ Len(calls) = 2
            /\ result = "ok"
      /\ first.raised =>
            /\ Len(calls) = 3
            /\ calls[3].req = [first.req EXCEPT !.shape = UnknownShape]
            /\ ~calls[3].raised =>
                  /\ result = "ok"
                  /\ params["b"] # NoTensor
                  /\ \E t \in {temp_data.outputs,
                               IF Len(temp_data.outputs.args) > 0
                               THEN temp_data.outputs.args[1] ELSE NoTensor} :
                        /\ t.op = "bias_add"
                        /\ t.args[2] = params["b"]
            /\ calls[3].raised => result = "framework_error"

C3_Witness ==
    /\ result = "ok"
    /\ Len(calls) = 3
    /\ calls[2].raised
    /\ ~calls[3].raised

\* C4, as claimed: a compile call leaves the configuration fields and the
\* stored reference to the resolved input as they were.
C4_InputUntouched ==
    [][CompileStep => (layer' = layer /\ temp_data'.inputs = resolved')]_vars

\* C4, amended: a compile call leaves the configuration fields as they were;
\* the stored input is the resolved input when compile ends in one of its two
\* explicit errors, and quantize_active(cabs(input), bitA) otherwise.
C4_Frame ==
    [][CompileStep =>
         /\ layer' = layer
         /\ temp_data'.inputs =
              IF ExplicitFailure(result') THEN resolved'
              ELSE quantize_active(cabs(resolved'), layer.bitA)]_vars

C4_Witness ==
    /\ result = "ok"
    /\ temp_data.inputs # resolved
    /\ temp_data.inputs.op = "quantize_active"

\* C5: until compile has been invoked neither 'W' nor 'b' exists; a parameter
\* changes only in a compile step, and an existing parameter is never removed
\* or replaced.
C5_Lazy ==
    /\ [](~Compiled => \A n \in DOMAIN params : params[n] = NoTensor)
    /\ [][/\ params' # params => CompileStep
          /\ \A n \in DOMAIN params :
               params[n] # NoTensor => params'[n] = params[n]]_vars

C5_Witness ==
    /\ result = "rank_error"
    /\ params["W"] # NoTensor
    /\ params["b"] # NoTensor

\* C6: after a successful compile the left operand of the product is
\* quantize_active(cabs(input), bitA) of the resolved input.
C6_LeftOperand ==
    result = "ok" =>
      /\ MatMulOf(temp_data.outputs).op = "matmul"
      /\ MatMulOf(temp_data.outputs).args[1] =
           quantize_active(cabs(resolved), layer.bitA)

C6_Witness ==
    /\ result = "ok"
    /\ layer.bitA # layer.bitW
    /\ resolved.op = "input"

\* C7: after a successful compile the right operand of the product is
\* quantize_weight(W, bitW), and the stored 'W' is the variable the parameter
\* mechanism created from W_init, not its quantized view.
C7_RightOperand ==
    result = "ok" =>
      /\ MatMulOf(temp_data.outputs).op = "matmul"
      /\ MatMulOf(temp_data.outputs).args[2] =
           quantize_weight(params["W"], layer.bitW)
      /\ params["W"].op = "var"
      /\ params["W"].fn = "W"
      /\ params["W"].init = layer.W_init
      /\ params["W"].init_args = layer.W_init_args

C7_Witness ==
    /\ result = "ok"
    /\ layer.bitA # layer.bitW
    /\ params["W"].op = "var"

\* C8: the output of a successful compile is act(product + b) with the raw
\* parameter 'b' when b_init is configured, and act(product), with no bias
\* requested or created, when b_init is None.
C8_Output ==
    result = "ok" =>
      LET product == MatMulOf(temp_data.outputs)
          act(t) == IF layer.act = None THEN t
                    ELSE [t EXCEPT !.op = "act", !.fn = layer.act,
                                   !.args = <<t>>]
      IN  /\ product.op = "matmul"
          /\ layer.b_init = None =>
                /\ temp_data.outputs = act(product)
                /\ Len(calls) = 1
                /\ params["b"] = NoTensor
          /\ layer.b_init # None =>
                /\ params["b"].op = "var"
                /\ temp_data.outputs =
                     act([product EXCEPT !.op = "bias_add",
                                         !.args = <<product, params["b"]>>])

C8_Witness ==
    /\ result = "ok"
    /\ layer.b_init # None
    /\ layer.act # None

\* C9: a successful compile on an input of shape (batch, n_in) requests 'W'
\* with shape (n_in, n_units), requests 'b' first with shape (n_units), and
\* yields an output of shape (batch, n_units).
C9_Shapes ==
    result = "ok" =>
      /\ Len(resolved.shape) = 2
      /\ calls[1].req.name = "W"
      /\ calls[1].req.shape = <<resolved.shape[2], layer.n_units>>
      /\ layer.b_init # None =>
            /\ calls[2].req.name = "b"
            /\ calls[2].req.shape = <<layer.n_units>>
      /\ temp_data.outputs.shape = <<resolved.shape[1], layer.n_units>>

C9_Witness ==
    /\ result = "ok"
    /\ resolved.shape = <<2, 1>>
    /\ layer.n_units = DefaultUnits
    /\ layer.b_init # None

\* C10: a compile call that ends in the rank error or in the not-implemented
\* error has asked for no parameter and created none, leaves the raw resolved
\* input stored, and leaves the stored output as it was.
C10_FailureKeepsState ==
    [][(CompileStep /\ ExplicitFailure(result')) =>
         /\ params' = params
         /\ calls' = <<>>
         /\ temp_data'.inputs = resolved'
         /\ temp_data'.outputs = temp_data.outputs]_vars

C10_Witness ==
    /\ result = "not_implemented"
    /\ temp_data.inputs = resolved
    /\ temp_data.inputs.op = "input"

====
